---------------------------- MODULE Spec2Model ----------------------------
(***************************************************************************)
(* A model of the time tracker's duration and aggregation logic.           *)
(*                                                                         *)
(* Three variants of the tracker share the computation:                    *)
(*   - the local-storage variant  (src/src/App.jsx),                       *)
(*   - the Supabase variant       (src/src/components/TimeTracker.jsx),    *)
(*   - the REST-backend variant   (src/unnamed/part_001).                  *)
(*                                                                         *)
(* Specifications:                                                         *)
(*   SpecCalc   one call of calculateDuration (identical in the first two  *)
(*              variants) or of the Supabase addEntry's end computation;   *)
(*   SpecLocal  the local-storage tracker: form edits, addEntry,           *)
(*              deleteEntry, importData;                                   *)
(*   SpecAgg    a render of the Supabase tracker over loaded rows:         *)
(*              getEntriesForDate, getTotalsByCategory, getWeeklyAverages; *)
(*   SpecWeek   renders of the Supabase tracker on successive days, in     *)
(*              zones with and without daylight-saving changes;            *)
(*   SpecTrend  the REST variant's weekly trends: fetchWeeklyAnalytics and *)
(*              the trend cards. The backend that computes the rows is not *)
(*              among the sources; weeklyTrend is modelled from its        *)
(*              specification.                                             *)
(*                                                                         *)
(* Representation of JavaScript values:                                    *)
(*   - a time or number text is the sequence of its character codes ("" is *)
(*     << >>); descriptions and tags, which are only compared, are strings;*)
(*   - a calendar-date string "YYYY-MM-DD" is its day number (day 0 is an  *)
(*     arbitrary epoch day); canonical ISO dates and day numbers are in an *)
(*     order-preserving bijection, so === and < on them agree;             *)
(*   - a Date is its time value, milliseconds since day 0 00:00 UTC, or    *)
(*     NaN for an Invalid Date;                                            *)
(*   - the host's local time zone is a record [before, after, at]: the UTC *)
(*     offset (ms east of UTC) in force before and from the instant `at`.  *)
(***************************************************************************)
EXTENDS Integers, Sequences, FiniteSets, TLC

VARIABLES
    zone,         \* the host's local time zone (ambient input of every Date call)
    now,          \* the host clock's latest reading (Date.now(), new Date())
    calc,         \* one call of calculateDuration: its arguments and its result
    rendered,     \* what one render of the component computed from entries
    entries,      \* useState([]) entries (entry records, or backend rows in SpecAgg)
    selectedDate, \* the date input's value
    startTime,    \* form field
    endTime,      \* form field
    description,  \* form field
    tag,          \* form field
    weeklyAnalytics, \* REST variant: useState([]) weeklyAnalytics
    backendEntries,  \* REST variant: the time entries the backend holds
    currentActivity, \* useState(null) currentActivity: << >> is null, <<a>> an activity
    isTracking,      \* useState(false) isTracking
    categories,      \* Supabase variant: useState([]) categories
    loading,         \* Supabase variant: useState(true) loading
    error,           \* Supabase variant: useState('') error
    inflight,        \* backend calls sent and not yet answered
    initializing,    \* Supabase variant: where initializeData stands (pc), what
                     \* its first getProjects found, the createProject calls made
    dailyAnalytics,  \* REST variant: useState(null) dailyAnalytics
    user,            \* AuthProvider: useState(null) user
    authLoading,     \* AuthProvider: useState(true) loading
    session,         \* the auth client's current session
    authEvents,      \* what the auth client owes the provider: the state and
                     \* result of getSession, the queue of auth-state-change
                     \* events not yet handled, the number of changes so far
    storage,         \* localStorage item 'timeTrackerEntries': << >> is null,
                     \* <<list>> the JSON text of a list
    effects          \* local-storage variant: where mounting stands (pc), the
                     \* runs of the mount effects still to come, the setEntries
                     \* calls not yet rendered, what was stored before mount

\* The state of the REST variant.
restVars == <<weeklyAnalytics, backendEntries>>

\* The variables no handler of the local-storage tracker touches: the
\* observations and the REST variant's state.
trackVars == <<currentActivity, isTracking>>

\* The state of the Supabase-backed tracker besides entries and the form.
supaVars == <<categories, loading, error, initializing>>

\* The state of the AuthProvider and of the auth client it listens to.
authVars == <<user, authLoading, session, authEvents>>

\* localStorage and the mount effects of the local-storage variant.
mountVars == <<storage, effects>>

\* Tracking, backend calls, authentication and storage.
moreVars == <<trackVars, supaVars, inflight, dailyAnalytics, authVars, mountVars>>

auxVars == <<calc, rendered, restVars, moreVars>>

formVars == <<startTime, endTime, description, tag>>

localVars == <<entries, selectedDate, startTime, endTime, description, tag>>

vars == <<zone, now, calc, rendered, entries, selectedDate, startTime, endTime,
          description, tag, weeklyAnalytics, backendEntries, currentActivity,
          isTracking, categories, loading, error, inflight, initializing,
          dailyAnalytics, user, authLoading, session, authEvents, storage,
          effects>>

-----------------------------------------------------------------------------
(* Bounds *)

\* Calendar dates range over day numbers 0..MaxDay.
MaxDay == 2

Dates == 0..MaxDay

\* The entries list holds at most MaxEntries entries.
MaxEntries == 2

\* An imported CSV file has at most MaxLines non-blank data lines.
MaxLines == 2

\* The host clock advances at most MaxTicks milliseconds during a run.
MaxTicks == 1

\* The backend returns at most MaxRows rows.
MaxRows == 3

\* The host clock is followed for at most MaxNights days after the first
\* render.
MaxNights == 1

\* The host clock is moved on at most MaxWaits times within a session.
MaxWaits == 1

\* At most MaxInFlight backend calls are outstanding at a time.
MaxInFlight == 1

\* REST variant: at most MaxRequests GET requests are outstanding at a time.
MaxRequests == 4

\* The auth client's session changes at most MaxAuthChanges times.
MaxAuthChanges == 2

-----------------------------------------------------------------------------
(* JavaScript numbers, strings and Dates *)

\* The time value of an Invalid Date, and the number NaN.
NaN == -2000000000

MsPerMinute == 1000 * 60
MsPerHour == 60 * MsPerMinute
MsPerDay == 24 * MsPerHour

\* The clock reading at which the component is constructed: 10:00 UTC, day 0.
InitialNow == 10 * MsPerHour

\* Character codes.
Ch0 == 48
ChColon == 58

IsDigit(c) == c >= Ch0 /\ c <= Ch0 + 9

DigitVal(c) == c - Ch0

\* Two decimal digits at positions i, i+1 of string s.
TwoDigits(s, i) == 10 * DigitVal(s[i]) + DigitVal(s[i + 1])

\* String(n).padStart(2, '0') followed by ':' and the same for m: the "HH:MM"
\* rendering that <input type="time"> and toTimeString().slice(0, 5) produce.
HHMM(h, m) ==
    <<Ch0 + (h \div 10), Ch0 + (h % 10), ChColon, Ch0 + (m \div 10), Ch0 + (m % 10)>>

\* "HH:MM" for a minute of the day.
TimeString(minute) == HHMM(minute \div 60, minute % 60)

\* "HH:MM:SS".
TimeStringSec(minute, sec) ==
    TimeString(minute) \o <<ChColon, Ch0 + (sec \div 10), Ch0 + (sec % 10)>>

\* The time part of an ISO date-time string as the Date parser reads it:
\* "HH:MM" or "HH:MM:SS" with HH <= 23, MM <= 59, SS <= 59 gives the
\* milliseconds since midnight; anything else makes the Date invalid.
ParseTimeOfDay(s) ==
    LET hhmm == Len(s) >= 5
                /\ IsDigit(s[1]) /\ IsDigit(s[2]) /\ s[3] = ChColon
                /\ IsDigit(s[4]) /\ IsDigit(s[5])
                /\ TwoDigits(s, 1) <= 23 /\ TwoDigits(s, 4) <= 59
        ss   == Len(s) = 8
                /\ s[6] = ChColon /\ IsDigit(s[7]) /\ IsDigit(s[8])
                /\ TwoDigits(s, 7) <= 59
    IN  IF hhmm /\ Len(s) = 5
          THEN TwoDigits(s, 1) * MsPerHour + TwoDigits(s, 4) * MsPerMinute
        ELSE IF hhmm /\ ss
          THEN TwoDigits(s, 1) * MsPerHour + TwoDigits(s, 4) * MsPerMinute
               + TwoDigits(s, 7) * 1000
        ELSE NaN

\* The UTC offset the zone applies at UTC instant u.
OffsetAt(z, u) == IF u < z.at THEN z.before ELSE z.after

\* ECMAScript UTC(t): the UTC instant of local wall-clock time t. A wall-clock
\* time that occurs twice (clocks set back) or never (clocks set forward) is
\* read with the offset in force before the transition.
LocalToUTC(z, t) ==
    IF t - z.before < z.at THEN t - z.before
    ELSE IF t - z.after >= z.at THEN t - z.after
    ELSE t - z.before

\* new Date(`${date}T${time}`): a date-time string without offset is local time.
NewDate(z, date, time) ==
    IF date \notin Dates \/ ParseTimeOfDay(time) = NaN
      THEN NaN
      ELSE LocalToUTC(z, date * MsPerDay + ParseTimeOfDay(time))

\* Mutant of SetDatePlus1: d.setDate(d.getDate()), the "+ 1" forgotten.
SetDateSame(z, u) ==
    IF u = NaN THEN NaN ELSE LocalToUTC(z, u + OffsetAt(z, u))

\* d.setDate(d.getDate() + 1): the same wall-clock time on the next local day.
SetDatePlus1(z, u) ==
    IF u = NaN THEN NaN ELSE LocalToUTC(z, u + OffsetAt(z, u) + MsPerDay)

\* a < b on Dates / numbers: false when either is NaN.
NumLt(a, b) == a # NaN /\ b # NaN /\ a < b

\* a - b on numbers.
NumSub(a, b) == IF a = NaN \/ b = NaN THEN NaN ELSE a - b

\* Math.round(x / d) for d > 0: nearest integer, halves toward +Infinity.
MathRoundDiv(x, d) == IF x = NaN THEN NaN ELSE (2 * x + d) \div (2 * d)

-----------------------------------------------------------------------------
(* calculateDuration *)

\* Mutant of AdjustedEnd: the overnight branch is missing.
AdjustedEndNever(z, startDate, endDate) == endDate

\* Mutant of AdjustedEnd: the overnight test is <= instead of <.
AdjustedEndOrEqual(z, startDate, endDate) ==
    IF startDate # NaN /\ endDate # NaN /\ endDate <= startDate
      THEN SetDatePlus1(z, endDate)
      ELSE endDate

\* endDate after the overnight adjustment of calculateDuration.
AdjustedEnd(z, startDate, endDate) ==
    IF NumLt(endDate, startDate) THEN SetDatePlus1(z, endDate) ELSE endDate

\* Mutant of calculateDuration: the operands of the subtraction are swapped.
calculateDurationSwapped(z, date, start, end) ==
    LET startDate == NewDate(z, date, start)
        endDate   == NewDate(z, date, end)
    IN  MathRoundDiv(NumSub(startDate, AdjustedEnd(z, startDate, endDate)),
                     MsPerMinute)

\* calculateDuration(start, end), with the selectedDate and the host zone it
\* reads from its scope passed as date and z.
calculateDuration(z, date, start, end) ==
    LET startDate == NewDate(z, date, start)
        endDate   == NewDate(z, date, end)
    IN  MathRoundDiv(NumSub(AdjustedEnd(z, startDate, endDate), startDate),
                     MsPerMinute)


\* a < b on strings: code-unit lexicographic order.
RECURSIVE StrLt(_, _)
StrLt(a, b) ==
    IF b = << >> THEN FALSE
    ELSE IF a = << >> THEN TRUE
    ELSE IF a[1] # b[1] THEN a[1] < b[1]
    ELSE StrLt(Tail(a), Tail(b))

\* The Supabase variant's addEntry does not call calculateDuration: it sends
\* start and end instants to the backend. This is the end instant it sends
\* (endDateTime); NaN stands for the RangeError toISOString throws on an
\* Invalid Date.
addEntryEndDateTime(z, date, start, end) ==
    IF StrLt(end, start)
      THEN SetDatePlus1(z, NewDate(z, date, end))
      ELSE NewDate(z, date, end)

-----------------------------------------------------------------------------
(* Time zones and inputs of the duration computation *)

\* A zone whose UTC offset never changes.
FixedZone(offset) == [before |-> offset, after |-> offset, at |-> 0]

\* US-Eastern-like zones: clocks go from 02:00 to 03:00 on day d (UTC-5 to
\* UTC-4), or from 02:00 back to 01:00 on day d (UTC-4 to UTC-5).
SpringForward(d) ==
    [before |-> -5 * MsPerHour, after |-> -4 * MsPerHour,
     at |-> d * MsPerDay + 7 * MsPerHour]

FallBack(d) ==
    [before |-> -4 * MsPerHour, after |-> -5 * MsPerHour,
     at |-> d * MsPerDay + 6 * MsPerHour]

\* UTC, a western and an eastern fixed zone, and a daylight-saving change on
\* any modelled day or on the day after the last one.
Zones ==
    {FixedZone(0), FixedZone(-5 * MsPerHour), FixedZone(330 * MsPerMinute)}
    \cup {SpringForward(d) : d \in 0..(MaxDay + 1)}
    \cup {FallBack(d) : d \in 0..(MaxDay + 1)}

\* Minutes of the day offered as "HH:MM" inputs: around midnight, around the
\* 02:00-03:00 clock change, mid-morning and late evening.
MinuteGrid == {0, 15, 90, 150, 195, 570, 1410, 1439}

\* "bad": a string the Date parser rejects.
BadTime == <<98, 97, 100>>

CalcTimes ==
    {TimeString(m) : m \in MinuteGrid} \cup {TimeStringSec(570, 40), BadTime}

\* The local-storage tracker as constructed: no entries, an empty form.
LocalIdle ==
    /\ entries = << >>
    /\ selectedDate = 0
    /\ startTime = << >> /\ endTime = << >>
    /\ description = "" /\ tag = ""

\* No render is being observed.
NotRendered ==
    rendered = [pc |-> "pending", today |-> 0,
                todayEntries |-> << >>, todayTotals |-> << >>,
                last7Days |-> << >>, weeklyTotals |-> << >>,
                weeklyAverages |-> << >>]

\* The REST variant as constructed, with an empty backend.
RestIdle == weeklyAnalytics = << >> /\ backendEntries = << >>

\* Tracking, backend calls, authentication and storage are idle.
\* The state the components are constructed with: nothing tracked, the
\* Supabase-backed tracker loading, no call outstanding, no user and no
\* session, nothing stored.
MoreIdle ==
    /\ currentActivity = << >> /\ isTracking = FALSE
    /\ categories = << >> /\ loading = TRUE /\ error = ""
    /\ initializing = [pc |-> "idle", found |-> "pending", created |-> 0]
    /\ inflight = << >>
    /\ dailyAnalytics = << >>
    /\ user = << >> /\ authLoading = TRUE
    /\ session = << >>
    /\ authEvents = [getSession |-> "pending", result |-> << >>, queue |-> << >>,
                     changes |-> 0]
    /\ storage = << >>
    /\ effects = [pc |-> "idle", runs |-> 0, queue |-> << >>, saved |-> << >>]

\* No call of calculateDuration is being observed.
CalcIdle ==
    calc = [selectedDate |-> 0, start |-> << >>, end |-> << >>,
            pc |-> "idle", minutes |-> 0, endShift |-> 0]

-----------------------------------------------------------------------------
(* Specification SpecCalc: one call of calculateDuration *)

CalcInit ==
    /\ RestIdle
    /\ MoreIdle
    /\ zone \in Zones
    /\ calc \in [selectedDate : Dates, start : CalcTimes, end : CalcTimes,
                 pc : {"call"}, minutes : {0}, endShift : {0}]
    /\ now = 0
    /\ NotRendered
    /\ LocalIdle

\* The call runs to its return statement. endShift records by how many
\* milliseconds the overnight branch moved endDate.
Calculate ==
    /\ calc.pc = "call"
    /\ LET startDate == NewDate(zone, calc.selectedDate, calc.start)
           endDate   == NewDate(zone, calc.selectedDate, calc.end)
       IN  calc' = [calc EXCEPT
                      !.pc = "return",
                      !.minutes = calculateDuration(zone, calc.selectedDate,
                                                    calc.start, calc.end),
                      !.endShift = NumSub(AdjustedEnd(zone, startDate, endDate),
                                          endDate)]
    /\ UNCHANGED <<zone, now, rendered, localVars, restVars, moreVars>>

\* addEntry of the Supabase variant up to the createTimeEntry call, for the
\* same form values: endShift records by how much endDateTime was moved.
PrepareEntryTimes ==
    /\ calc.pc = "call"
    /\ calc' = [calc EXCEPT
                  !.pc = "sent",
                  !.endShift =
                      NumSub(addEntryEndDateTime(zone, calc.selectedDate,
                                                 calc.start, calc.end),
                             NewDate(zone, calc.selectedDate, calc.end))]
    /\ UNCHANGED <<zone, now, rendered, localVars, restVars, moreVars>>

CalcNext == Calculate \/ PrepareEntryTimes

SpecCalc == CalcInit /\ [][CalcNext]_vars

-----------------------------------------------------------------------------
(* Vocabulary of the duration claims *)

\* A valid hour:minute time of day.
ValidHM(s) == Len(s) = 5 /\ ParseTimeOfDay(s) # NaN

\* Its minute of the day, read off the digits.
MinuteOfDay(s) == 60 * TwoDigits(s, 1) + TwoDigits(s, 4)

MinOf(a, b) == IF a < b THEN a ELSE b

MaxOf(a, b) == IF a < b THEN b ELSE a

\* The zone's UTC offset does not change anywhere in the local wall-clock
\* interval [t1, t2] (milliseconds since day 0 00:00 local).
SteadyOffset(z, t1, t2) ==
    \/ z.before = z.after
    \/ t2 < z.at + MinOf(z.before, z.after)
    \/ t1 >= z.at + MaxOf(z.before, z.after)

\* Either variant has decided where the end of the entry lies, for two valid
\* hour:minute values.
EndDecided ==
    calc.pc \in {"return", "sent"} /\ ValidHM(calc.start) /\ ValidHM(calc.end)

\* calculateDuration has returned for two valid hour:minute arguments.
CalcReturned ==
    calc.pc = "return" /\ ValidHM(calc.start) /\ ValidHM(calc.end)

CalcStartLocal == calc.selectedDate * MsPerDay + MinuteOfDay(calc.start) * MsPerMinute

CalcEndLocal == calc.selectedDate * MsPerDay + MinuteOfDay(calc.end) * MsPerMinute

-----------------------------------------------------------------------------
(* The local-storage variant (src/src/App.jsx): entries and the entry form *)

\* The value of the date input after it has been cleared: ''.
EmptyDate == -1

\* new Date().toISOString().split('T')[0]: the UTC calendar date of an instant.
ISODate(u) == u \div MsPerDay

ChMinus == 45

\* The decimal value of the longest run of digits of s that starts at i, given
\* the value acc of the digits before i.
RECURSIVE DigitRun(_, _, _)
DigitRun(s, i, acc) ==
    IF i <= Len(s) /\ IsDigit(s[i])
      THEN DigitRun(s, i + 1, 10 * acc + DigitVal(s[i]))
      ELSE acc

\* parseInt(s) of a trimmed string: an optional '-', then the leading digits;
\* NaN when there is no leading digit.
ParseInt(s) ==
    LET neg   == Len(s) >= 1 /\ s[1] = ChMinus
        first == IF neg THEN 2 ELSE 1
    IN  IF first <= Len(s) /\ IsDigit(s[first])
          THEN (IF neg THEN -1 ELSE 1) * DigitRun(s, first, 0)
          ELSE NaN

\* x || 0 for a number x: NaN and 0 are falsy.
OrZero(x) == IF x = NaN THEN 0 ELSE x

\* s || dflt for a string s.
OrDefault(s, dflt) == IF s = "" THEN dflt ELSE s

\* The comparator of addEntry's sort:
\* new Date(`${a.date}T${a.start}`) - new Date(`${b.date}T${b.start}`).
CompareEntries(z, a, b) ==
    NumSub(NewDate(z, a.date, a.start), NewDate(z, b.date, b.start))

\* A comparator result v counts as "a after b" only when v > 0; NaN counts as 0.
SortsAfter(z, a, b) ==
    CompareEntries(z, a, b) # NaN /\ CompareEntries(z, a, b) > 0

\* The comparator is consistent on the list: either every key is a valid Date,
\* or all the valid keys are equal (then every comparison yields 0 or NaN).
ConsistentComparator(z, list) ==
    \/ \A i \in 1..Len(list) : NewDate(z, list[i].date, list[i].start) # NaN
    \/ \A i, j \in 1..Len(list) :
          \/ CompareEntries(z, list[i], list[j]) = NaN
          \/ CompareEntries(z, list[i], list[j]) = 0

\* e inserted into sorted list `done` behind every element that does not sort
\* after it (the place a stable sort gives the last element).
InsertSorted(z, done, e) ==
    LET after == {i \in 1..Len(done) : SortsAfter(z, done[i], e)}
        k     == IF after = {} THEN Len(done) + 1
                 ELSE CHOOSE i \in after : \A j \in after : i <= j
    IN  SubSeq(done, 1, k - 1) \o <<e>> \o SubSeq(done, k, Len(done))

RECURSIVE StableSort(_, _)
StableSort(z, list) ==
    IF list = << >> THEN << >>
    ELSE InsertSorted(z, StableSort(z, SubSeq(list, 1, Len(list) - 1)),
                      list[Len(list)])

\* All orderings of a list.
Orderings(list) ==
    {[i \in 1..Len(list) |-> list[f[i]]] :
        f \in {g \in [1..Len(list) -> 1..Len(list)] :
                 \A i, j \in 1..Len(list) : i # j => g[i] # g[j]}}

\* The possible results of Array.prototype.sort with addEntry's comparator: the
\* stable sort when the comparator is consistent; with an inconsistent
\* comparator the order is implementation-defined.
SortOutcomes(z, list) ==
    IF ConsistentComparator(z, list)
      THEN {StableSort(z, list)}
      ELSE Orderings(list)

\* A reading of the host clock: it never runs backwards.
ClockReadings == {t \in now..(now + 1) : t <= InitialNow + MaxTicks}

\* Values the form's controls can take: a time input holds '' or "HH:MM", the
\* description any text, the tag select '' or one of the tags.
FormTimes == {<< >>, TimeString(570), TimeString(1410)}

FormDescriptions == {"", "work"}

FormTags == {"", "Sleep"}

FormDates == {0, 1, EmptyDate}

\* onChange handlers of the form.
setSelectedDate(d) ==
    /\ selectedDate' = d
    /\ UNCHANGED <<zone, now, auxVars, entries, formVars>>

setStartTime(t) ==
    /\ startTime' = t
    /\ UNCHANGED <<zone, now, auxVars, entries, selectedDate, endTime, description, tag>>

setEndTime(t) ==
    /\ endTime' = t
    /\ UNCHANGED <<zone, now, auxVars, entries, selectedDate, startTime, description, tag>>

setDescription(d) ==
    /\ description' = d
    /\ UNCHANGED <<zone, now, auxVars, entries, selectedDate, startTime, endTime, tag>>

setTag(t) ==
    /\ tag' = t
    /\ UNCHANGED <<zone, now, auxVars, entries, selectedDate, startTime, endTime, description>>

\* addEntry with a field missing: the alert, and nothing else.
addEntryRejected ==
    /\ startTime = << >> \/ endTime = << >> \/ description = "" \/ tag = ""
    /\ UNCHANGED vars

\* addEntry with the form filled in: the new entry, the sort, the form reset.
addEntry ==
    /\ startTime # << >> /\ endTime # << >> /\ description # "" /\ tag # ""
    /\ Len(entries) < MaxEntries
    /\ \E t \in ClockReadings :
         LET newEntry ==
               [id          |-> t,
                date        |-> selectedDate,
                start       |-> startTime,
                end         |-> endTime,
                duration    |-> calculateDuration(zone, selectedDate,
                                                  startTime, endTime),
                description |-> description,
                tag         |-> tag]
         IN  /\ entries' \in SortOutcomes(zone, Append(entries, newEntry))
             /\ now' = t
    /\ startTime' = << >>
    /\ endTime' = << >>
    /\ description' = ""
    /\ tag' = ""
    /\ UNCHANGED <<zone, auxVars, selectedDate>>

\* entries.filter(entry => entry.id !== id)
RemoveId(list, id) == SelectSeq(list, LAMBDA e : e.id # id)

deleteEntry(id) ==
    /\ entries' = RemoveId(entries, id)
    /\ UNCHANGED <<zone, now, auxVars, selectedDate, formVars>>

\* One non-blank data line of a CSV file after split(',') and trim(): its
\* cells. A missing cell reads as the empty string.
Cell(dateCell, startCell, endCell, durationCell, descriptionCell, tagCell) ==
    [date |-> dateCell, start |-> startCell, end |-> endCell,
     duration |-> durationCell, description |-> descriptionCell, tag |-> tagCell]

\* "840", "-30" and "abc".
Text840 == <<56, 52, 48>>

TextMinus30 == <<45, 51, 48>>

TextAbc == <<97, 98, 99>>

\* Data lines offered to importData: one that agrees with its own times, one
\* with a negative duration cell, one with an unparsable start time, a
\* non-numeric duration and no tag.
ImportLines ==
    {Cell(0, TimeString(570), TimeString(1410), Text840, "work", "Productive"),
     Cell(0, TimeString(1410), TimeString(570), TextMinus30, "rest", "Sleep"),
     Cell(1, BadTime, TimeString(570), TextAbc, "", "")}

ImportFiles == UNION {[1..n -> ImportLines] : n \in 1..MaxLines}

\* The entry importData builds from line number index (0-based) read at t.
ImportedEntry(line, index, t) ==
    [id          |-> t + index,
     date        |-> line.date,
     start       |-> line.start,
     end         |-> line.end,
     duration    |-> OrZero(ParseInt(line.duration)),
     description |-> line.description,
     tag         |-> OrDefault(line.tag, "Unproductive")]

\* importData: reader.onload for a chosen file; the imported entries are
\* appended behind the existing ones.
importData(file) ==
    /\ Len(entries) + Len(file) <= MaxEntries
    /\ \E t \in ClockReadings :
         /\ entries' = entries \o
                [i \in 1..Len(file) |-> ImportedEntry(file[i], i - 1, t)]
         /\ now' = t
    /\ UNCHANGED <<zone, auxVars, selectedDate, formVars>>

\* The host zones the tracker is run in.
LocalZones == {FixedZone(0), FixedZone(-5 * MsPerHour), SpringForward(0)}

\* The component as mounted with nothing saved: the selected date is the UTC
\* date of the clock.
LocalInit ==
    /\ RestIdle
    /\ MoreIdle
    /\ zone \in LocalZones
    /\ now = InitialNow
    /\ CalcIdle
    /\ NotRendered
    /\ entries = << >>
    /\ selectedDate = ISODate(now)
    /\ startTime = << >> /\ endTime = << >>
    /\ description = "" /\ tag = ""

LocalNext ==
    \/ \E d \in FormDates : setSelectedDate(d)
    \/ \E t \in FormTimes : setStartTime(t)
    \/ \E t \in FormTimes : setEndTime(t)
    \/ \E d \in FormDescriptions : setDescription(d)
    \/ \E t \in FormTags : setTag(t)
    \/ addEntryRejected
    \/ addEntry
    \/ \E i \in 1..Len(entries) : deleteEntry(entries[i].id)
    \/ \E file \in ImportFiles : importData(file)

SpecLocal == LocalInit /\ [][LocalNext]_vars

-----------------------------------------------------------------------------
(* The Supabase-backed variant (src/src/components/TimeTracker.jsx):       *)
(* the aggregation functions over the rows the backend returned.           *)
(*                                                                         *)
(* A row is [id, start_time, end_time, duration_minutes, projects]:        *)
(* start_time is the instant its ISO string denotes; end_time and          *)
(* duration_minutes are << >> (null) or <<value>>; projects is << >> (null)*)
(* or <<[name |-> ...]>>, the joined category.                             *)

\* entry.projects?.name || 'Unknown', with a mutant that forgets the fallback
\* (the key is then the string "undefined").
CategoryNameNoFallback(e) ==
    IF e.projects = << >> THEN "undefined" ELSE e.projects[1].name

CategoryName(e) ==
    IF e.projects = << >> THEN "Unknown"
    ELSE OrDefault(e.projects[1].name, "Unknown")

\* entry.duration_minutes || 0
MinutesOrZero(e) ==
    IF e.duration_minutes = << >> THEN 0 ELSE OrZero(e.duration_minutes[1])

\* getEntriesForDate(date) over the entries in scope.
getEntriesForDate(list, date) ==
    SelectSeq(list, LAMBDA e : ISODate(e.start_time) = date)

\* The totals object after forEach has visited the given day entries.
RECURSIVE TotalsOf(_)
TotalsOf(dayEntries) ==
    IF dayEntries = << >> THEN [c \in {} |-> 0]
    ELSE LET totals       == TotalsOf(SubSeq(dayEntries, 1, Len(dayEntries) - 1))
             entry        == dayEntries[Len(dayEntries)]
             categoryName == CategoryName(entry)
             before       == IF categoryName \in DOMAIN totals
                               THEN OrZero(totals[categoryName]) ELSE 0
         IN  [c \in DOMAIN totals \cup {categoryName} |->
                 IF c = categoryName THEN before + MinutesOrZero(entry)
                 ELSE totals[c]]

\* TotalsOf with the assignment overwriting the bucket instead of adding to it.
RECURSIVE TotalsOfOverwriting(_)
TotalsOfOverwriting(dayEntries) ==
    IF dayEntries = << >> THEN [c \in {} |-> 0]
    ELSE LET totals       == TotalsOfOverwriting(SubSeq(dayEntries, 1, Len(dayEntries) - 1))
             entry        == dayEntries[Len(dayEntries)]
             categoryName == CategoryName(entry)
         IN  [c \in DOMAIN totals \cup {categoryName} |->
                 IF c = categoryName THEN MinutesOrZero(entry) ELSE totals[c]]

\* Mutant of getTotalsByCategory: totals[categoryName] = duration.
getTotalsByCategoryOverwriting(list, date) ==
    TotalsOfOverwriting(getEntriesForDate(list, date))

\* Mutant of getTotalsByCategory: totals starts as { Productive: 0 } instead
\* of {}.
getTotalsByCategoryPrefilled(list, date) ==
    LET totals == TotalsOf(getEntriesForDate(list, date))
    IN  [c \in DOMAIN totals \cup {"Productive"} |->
            IF c \in DOMAIN totals THEN totals[c] ELSE 0]

\* getTotalsByCategory(date) over the entries in scope.
getTotalsByCategory(list, date) == TotalsOf(getEntriesForDate(list, date))

\* date.setDate(date.getDate() - i): the same wall-clock time i local days
\* earlier.
SetDateMinus(z, u, i) == LocalToUTC(z, u + OffsetAt(z, u) - i * MsPerDay)

\* last7Days of getWeeklyAverages: for i = 6 down to 0, the UTC date of the
\* Date that is today moved i local days back.
last7Days(z, today) ==
    [k \in 1..7 |-> ISODate(SetDateMinus(z, today, 7 - k))]

\* weeklyTotals after the forEach over the given days:
\* weeklyTotals[category] = (weeklyTotals[category] || 0) + minutes
\* for every [category, minutes] of each day's getTotalsByCategory.
RECURSIVE WeeklyTotalsOf(_, _)
WeeklyTotalsOf(list, days) ==
    IF days = << >> THEN [c \in {} |-> 0]
    ELSE LET weeklyTotals == WeeklyTotalsOf(list, SubSeq(days, 1, Len(days) - 1))
             dayTotals    == getTotalsByCategory(list, days[Len(days)])
         IN  [c \in DOMAIN weeklyTotals \cup DOMAIN dayTotals |->
                 IF c \notin DOMAIN dayTotals THEN weeklyTotals[c]
                 ELSE (IF c \in DOMAIN weeklyTotals
                         THEN OrZero(weeklyTotals[c]) ELSE 0) + dayTotals[c]]

\* averages[category] = Math.round(total / 7) for every [category, total] of
\* weeklyTotals.
AveragesOf(weeklyTotals) ==
    [c \in DOMAIN weeklyTotals |-> MathRoundDiv(weeklyTotals[c], 7)]

\* getWeeklyAverages() over the entries in scope, with today = new Date().
getWeeklyAverages(z, today, list) ==
    AveragesOf(WeeklyTotalsOf(list, last7Days(z, today)))

\* A finished row of the given category, a finished row whose category is
\* gone, and a running row.
DoneRow(start, minutes, name) ==
    [id |-> 0, start_time |-> start,
     end_time |-> <<start + minutes * MsPerMinute>>,
     duration_minutes |-> <<minutes>>, projects |-> <<[name |-> name]>>]

OrphanRow(start, minutes) ==
    [id |-> 0, start_time |-> start,
     end_time |-> <<start + minutes * MsPerMinute>>,
     duration_minutes |-> <<minutes>>, projects |-> << >>]

RunningRow(start, name) ==
    [id |-> 0, start_time |-> start, end_time |-> << >>,
     duration_minutes |-> << >>, projects |-> <<[name |-> name]>>]

\* Rows the backend may hold: at midday, across UTC midnight (23:30Z for 45
\* minutes), late in the evening west of UTC (04:30Z of the next day is 23:30
\* at UTC-5), without category, still running.
BackendRows ==
    {DoneRow(12 * MsPerHour, 120, "Productive"),
     DoneRow(1410 * MsPerMinute, 45, "Sleep"),
     DoneRow(MsPerDay + 270 * MsPerMinute, 45, "Sleep"),
     OrphanRow(MsPerDay + 12 * MsPerHour, 30),
     OrphanRow(12 * MsPerHour, 60),
     RunningRow(12 * MsPerHour, "Productive")}

\* The backend gives every row its own id.
WithIds(list) == [i \in 1..Len(list) |-> [list[i] EXCEPT !.id = i]]

\* Entries lists the backend may return.
BackendLists ==
    {WithIds(list) : list \in UNION {[1..n -> BackendRows] : n \in 0..MaxRows}}

AggZones == {FixedZone(0), FixedZone(-5 * MsPerHour), FixedZone(330 * MsPerMinute)}

-----------------------------------------------------------------------------
(* Specification SpecAgg: one render over loaded entries *)

AggInit ==
    /\ RestIdle
    /\ MoreIdle
    /\ zone \in AggZones
    /\ now = InitialNow
    /\ CalcIdle
    /\ NotRendered
    /\ entries \in BackendLists
    /\ selectedDate \in Dates
    /\ startTime = << >> /\ endTime = << >>
    /\ description = "" /\ tag = ""

\* Mutant of render: getTotalsByCategory writes the default back into the
\* entry it visits (entry.duration_minutes = entry.duration_minutes || 0).
renderWritingDefaults ==
    /\ rendered' = [pc             |-> "done",
                    today          |-> now,
                    todayEntries   |-> getEntriesForDate(entries, selectedDate),
                    todayTotals    |-> getTotalsByCategory(entries, selectedDate),
                    last7Days      |-> last7Days(zone, now),
                    weeklyTotals   |-> WeeklyTotalsOf(entries, last7Days(zone, now)),
                    weeklyAverages |-> getWeeklyAverages(zone, now, entries)]
    /\ entries' = [i \in 1..Len(entries) |->
                     [entries[i] EXCEPT
                        !.duration_minutes = <<MinutesOrZero(entries[i])>>]]
    /\ UNCHANGED <<zone, now, calc, selectedDate, formVars, restVars, moreVars>>

\* A render computes todayEntries and todayTotals for the selected date and
\* weeklyAverages for the clock's reading; today, last7Days and weeklyTotals
\* record what getWeeklyAverages read and built on the way.
render ==
    /\ rendered' = [pc             |-> "done",
                    today          |-> now,
                    todayEntries   |-> getEntriesForDate(entries, selectedDate),
                    todayTotals    |-> getTotalsByCategory(entries, selectedDate),
                    last7Days      |-> last7Days(zone, now),
                    weeklyTotals   |-> WeeklyTotalsOf(entries, last7Days(zone, now)),
                    weeklyAverages |-> getWeeklyAverages(zone, now, entries)]
    /\ UNCHANGED <<zone, now, calc, localVars, restVars, moreVars>>

AggNext == render

SpecAgg == AggInit /\ [][AggNext]_vars

-----------------------------------------------------------------------------
(* Specification SpecWeek: renders of the Supabase tracker in the course of *)
(* a week, the entries staying as loaded while the host clock moves on.     *)

\* The day the week is observed on.
ReferenceDay == 7

\* Clock readings on that day: 00:30, 10:00 and 23:30 UTC.
WeekClocks ==
    {ReferenceDay * MsPerDay + m * MsPerMinute : m \in {30, 600, 1410}}

\* Host zones: UTC, UTC-5, and US-Eastern-like zones whose clocks changed
\* during the week (forward on day 5, back on day 4).
WeekZones ==
    {FixedZone(0), FixedZone(-5 * MsPerHour), SpringForward(5), FallBack(4)}

\* Rows started at 12:00 UTC: on the day before the week of ReferenceDay, on
\* its first day, on the days of the clock changes (140 minutes of
\* "Productive" on day 5), on ReferenceDay and on the day after.
WeekRows ==
    {DoneRow(0 * MsPerDay + 12 * MsPerHour, 30, "Productive"),
     DoneRow(1 * MsPerDay + 12 * MsPerHour, 45, "Sleep"),
     DoneRow(4 * MsPerDay + 12 * MsPerHour, 60, "Sleep"),
     DoneRow(5 * MsPerDay + 12 * MsPerHour, 140, "Productive"),
     DoneRow(ReferenceDay * MsPerDay + 12 * MsPerHour, 60, "Productive"),
     OrphanRow((ReferenceDay + 1) * MsPerDay + 12 * MsPerHour, 30)}

WeekLists ==
    {WithIds(list) : list \in UNION {[1..n -> WeekRows] : n \in 0..MaxRows}}

WeekInit ==
    /\ RestIdle
    /\ MoreIdle
    /\ zone \in WeekZones
    /\ now \in WeekClocks
    /\ CalcIdle
    /\ NotRendered
    /\ entries \in WeekLists
    /\ selectedDate = ISODate(now)
    /\ startTime = << >> /\ endTime = << >>
    /\ description = "" /\ tag = ""

\* A day passes on the host clock; nothing of the component changes.
dayPasses ==
    /\ ISODate(now) < ReferenceDay + MaxNights
    /\ now' = now + MsPerDay
    /\ UNCHANGED <<zone, auxVars, localVars>>

WeekNext == render \/ dayPasses

SpecWeek == WeekInit /\ [][WeekNext]_vars

-----------------------------------------------------------------------------
(* The REST variant (src/unnamed/part_001): weekly trends.                  *)
(*                                                                          *)
(* GET /analytics/weekly is answered by the backend, which is not among the *)
(* sources: entriesForDate .. weeklyTrend below follow section 4.1 of the   *)
(* specification. A backend entry is [date, tag, duration_minutes]. A row   *)
(* of the answer is [tag, current_week_avg, previous_week_avg,              *)
(* change_percentage, trend], the fields the trend cards read.              *)

\* A percentage that is not finite.
Infinity == 2000000000

Abs(x) == IF x < 0 THEN -x ELSE x

\* The integers nearest to num / den, for den > 0 (two of them on a tie,
\* which the specification's "round" leaves open).
RoundNearest(num, den) ==
    {n \in {num \div den, (num \div den) + 1} : 2 * Abs(n * den - num) <= den}

\* entriesForDate(entries, date)
entriesForDate(list, date) == SelectSeq(list, LAMBDA e : e.date = date)

\* The tag an entry counts under: "Unknown" when it has none.
TagOf(e) == OrDefault(e.tag, "Unknown")

RECURSIVE SumOfDurations(_)
SumOfDurations(list) ==
    IF list = << >> THEN 0
    ELSE list[1].duration_minutes + SumOfDurations(Tail(list))

\* totalsByTag(entries, date)
totalsByTag(list, date) ==
    LET day == entriesForDate(list, date)
    IN  [t \in {TagOf(day[i]) : i \in 1..Len(day)} |->
            SumOfDurations(SelectSeq(day, LAMBDA e : TagOf(e) = t))]

\* The minutes of tag t in totalsByTag of the 7 days ending at referenceDate,
\* summed.
RECURSIVE WindowTotal(_, _, _, _)
WindowTotal(list, referenceDate, t, days) ==
    IF days = 0 THEN 0
    ELSE LET totals == totalsByTag(list, referenceDate - (days - 1))
         IN  (IF t \in DOMAIN totals THEN totals[t] ELSE 0)
             + WindowTotal(list, referenceDate, t, days - 1)

\* weeklyAverages(entries, referenceDate)
weeklyAverages(list, referenceDate) ==
    LET tags == UNION {DOMAIN totalsByTag(list, d) :
                          d \in (referenceDate - 6)..referenceDate}
    IN  [t \in tags |->
            CHOOSE n \in RoundNearest(WindowTotal(list, referenceDate, t, 7), 7) :
                TRUE]

\* Mutant of ChangeChoices: the change is taken relative to the current week.
ChangeChoicesOverCurrent(current, previous) ==
    IF previous > 0 /\ current > 0
      THEN RoundNearest((current - previous) * 100, current)
    ELSE IF current > 0 THEN {100, Infinity}
    ELSE {0}

\* changePercentage: round((current - previous) / previous * 100) when
\* previous > 0; for a new category the policy is open (100 or not finite).
ChangeChoices(current, previous) ==
    IF previous > 0 THEN RoundNearest((current - previous) * 100, previous)
    ELSE IF current > 0 THEN {100, Infinity}
    ELSE {0}

\* trend
TrendOf(change_percentage) ==
    IF change_percentage > 0 THEN "increasing"
    ELSE IF change_percentage < 0 THEN "decreasing"
    ELSE "stable"

\* The rows weeklyTrend may produce for one tag.
TrendRowsOf(t, current, previous) ==
    {[tag |-> t, current_week_avg |-> current, previous_week_avg |-> previous,
      change_percentage |-> change, trend |-> TrendOf(change)] :
        change \in ChangeChoices(current, previous)}

\* weeklyTrend(entries, referenceDate): the sequences it may return, one row
\* per tag of either week, in any order.
weeklyTrend(list, referenceDate) ==
    LET current  == weeklyAverages(list, referenceDate)
        previous == weeklyAverages(list, referenceDate - 7)
        tags     == DOMAIN current \cup DOMAIN previous
        Avg(f, t) == IF t \in DOMAIN f THEN f[t] ELSE 0
        rows     == UNION {TrendRowsOf(t, Avg(current, t), Avg(previous, t)) :
                              t \in tags}
    IN  {stats \in [1..Cardinality(tags) -> rows] :
            \A i, j \in 1..Cardinality(tags) :
                i # j => stats[i].tag # stats[j].tag}

\* Mutant of getTrendIcon: the first test compares with 'decreasing'.
getTrendIconSwapped(trend) ==
    IF trend = "decreasing" THEN "chart-increasing"
    ELSE IF trend = "increasing" THEN "chart-decreasing"
    ELSE "arrow-right"

\* getTrendIcon(trend); the three emoji are named.
getTrendIcon(trend) ==
    IF trend = "increasing" THEN "chart-increasing"
    ELSE IF trend = "decreasing" THEN "chart-decreasing"
    ELSE "arrow-right"

\* The class of the "Change:" figure.
ChangeClass(stat) ==
    IF stat.change_percentage > 0 THEN "text-green-600"
    ELSE IF stat.change_percentage < 0 THEN "text-red-600"
    ELSE "text-gray-600"

\* The card rendered for one row of weeklyAnalytics.
TrendCard(stat) ==
    [key         |-> stat.tag,
     icon        |-> getTrendIcon(stat.trend),
     thisWeek    |-> stat.current_week_avg,
     lastWeek    |-> stat.previous_week_avg,
     changeClass |-> ChangeClass(stat),
     plusSign    |-> stat.change_percentage > 0,
     change      |-> stat.change_percentage]

\* Mutant of TrendCards: rows without a previous week are not rendered.
TrendCardsWithPreviousWeek(stats) ==
    LET shown == SelectSeq(stats, LAMBDA stat : stat.previous_week_avg > 0)
    IN  [i \in 1..Len(shown) |-> TrendCard(shown[i])]

\* weeklyAnalytics.map((stat) => card)
TrendCards(stats) == [i \in 1..Len(stats) |-> TrendCard(stats[i])]

\* A backend entry.
BackendEntry(date, name, minutes) ==
    [date |-> date, tag |-> name, duration_minutes |-> minutes]

\* Entries the backend may hold around ReferenceDay: in the current week, in
\* the previous week, in both, and before both.
TrendEntries ==
    {BackendEntry(ReferenceDay, "Productive", 140),
     BackendEntry(ReferenceDay - 5, "Productive", 70),
     BackendEntry(ReferenceDay - 7, "Productive", 140),
     BackendEntry(ReferenceDay - 2, "Sleep", 60),
     BackendEntry(ReferenceDay - 14, "Sleep", 500),
     BackendEntry(ReferenceDay - 9, "Transit", 56),
     BackendEntry(ReferenceDay - 1, "Transit", 63)}

TrendLists == UNION {[1..n -> TrendEntries] : n \in 0..MaxRows}

\* The backend answers on ReferenceDay or on the day after.
TrendClocks ==
    {(ReferenceDay + d) * MsPerDay + 10 * MsPerHour : d \in {0, 1}}

-----------------------------------------------------------------------------
(* Specification SpecTrend: the weekly analytics are fetched and shown *)

TrendInit ==
    /\ MoreIdle
    /\ zone = FixedZone(0)
    /\ now \in TrendClocks
    /\ CalcIdle
    /\ NotRendered
    /\ LocalIdle
    /\ weeklyAnalytics = << >>
    /\ backendEntries \in TrendLists

\* fetchWeeklyAnalytics, the request answered: setWeeklyAnalytics(response.data).
fetchWeeklyAnalytics ==
    /\ weeklyAnalytics' \in weeklyTrend(backendEntries, ISODate(now))
    /\ UNCHANGED <<zone, now, calc, rendered, localVars, backendEntries, moreVars>>

\* fetchWeeklyAnalytics, the request failed: console.error, the state stays.
fetchWeeklyAnalyticsFailed ==
    UNCHANGED vars

TrendNext == fetchWeeklyAnalytics \/ fetchWeeklyAnalyticsFailed

SpecTrend == TrendInit /\ [][TrendNext]_vars

-----------------------------------------------------------------------------
(* The Supabase-backed tracker (src/src/components/TimeTracker.jsx): the    *)
(* handlers. The form field `tag` holds selectedCategory, a category id.    *)
(*                                                                          *)
(* timeTrackingAPI is not among the sources. A call is a record in          *)
(* `inflight` until it is answered; calls are answered in any order. The    *)
(* row createTimeEntry answers with carries the instants it was sent.       *)

\* The sequence without its i-th element.
RemoveAt(q, i) == SubSeq(q, 1, i - 1) \o SubSeq(q, i + 1, Len(q))

\* now.toTimeString().slice(0, 5): the local wall-clock time as "HH:MM".
toTimeString(z, t) ==
    TimeString(((t + OffsetAt(z, t)) % MsPerDay) \div MsPerMinute)

\* The host clock moves on by an hour and a half.
timePasses ==
    /\ now < InitialNow + MaxWaits * 90 * MsPerMinute
    /\ now' = now + 90 * MsPerMinute
    /\ UNCHANGED <<zone, auxVars, localVars>>

\* Mutant of startTracking: isTracking is left as it was.
startTrackingFlagForgotten ==
    /\ currentActivity' =
          <<[start       |-> toTimeString(zone, now),
             description |-> OrDefault(description, "Current Activity"),
             category    |->
                 OrDefault(tag, IF categories = << >> THEN ""
                                ELSE categories[1].id)]>>
    /\ startTime' = toTimeString(zone, now)
    /\ UNCHANGED <<zone, now, calc, rendered, restVars, entries, selectedDate,
                   endTime, description, tag, isTracking, supaVars, inflight,
                   dailyAnalytics, authVars, mountVars>>

\* startTracking; categories[0]?.id is undefined when there is no category,
\* which the select shows as the empty selection.
startTracking ==
    /\ currentActivity' =
          <<[start       |-> toTimeString(zone, now),
             description |-> OrDefault(description, "Current Activity"),
             category    |->
                 OrDefault(tag, IF categories = << >> THEN ""
                                ELSE categories[1].id)]>>
    /\ isTracking' = TRUE
    /\ startTime' = toTimeString(zone, now)
    /\ UNCHANGED <<zone, now, calc, rendered, restVars, entries, selectedDate,
                   endTime, description, tag, supaVars, inflight,
                   dailyAnalytics, authVars, mountVars>>

\* stopTracking: with nothing tracked the if is not entered.
stopTracking ==
    \/ /\ currentActivity = << >>
       /\ UNCHANGED vars
    \/ /\ currentActivity # << >>
       /\ endTime' = toTimeString(zone, now)
       /\ description' = currentActivity[1].description
       /\ tag' = currentActivity[1].category
       /\ isTracking' = FALSE
       /\ currentActivity' = << >>
       /\ UNCHANGED <<zone, now, calc, rendered, restVars, entries,
                      selectedDate, startTime, supaVars, inflight,
                      dailyAnalytics, authVars, mountVars>>

\* What the catch blocks read from the thrown error.
ErrorMessages == {"Network request failed"}

\* addEntry with the form filled in, when a Date is invalid: toISOString
\* throws a RangeError and the catch block reports it.
addEntryThrew ==
    /\ startTime # << >> /\ endTime # << >> /\ description # "" /\ tag # ""
    /\ \/ NewDate(zone, selectedDate, startTime) = NaN
       \/ addEntryEndDateTime(zone, selectedDate, startTime, endTime) = NaN
    /\ error' = "Failed to add entry: " \o "Invalid time value"
    /\ UNCHANGED <<zone, now, calc, rendered, restVars, localVars, trackVars,
                   categories, loading, initializing, inflight,
                   dailyAnalytics, authVars, mountVars>>

\* addEntry with the form filled in, up to its await: createTimeEntry is
\* called with the category, the description and the two instants.
createTimeEntry ==
    /\ startTime # << >> /\ endTime # << >> /\ description # "" /\ tag # ""
    /\ NewDate(zone, selectedDate, startTime) # NaN
    /\ addEntryEndDateTime(zone, selectedDate, startTime, endTime) # NaN
    /\ Len(inflight) < MaxInFlight
    /\ Len(entries) + Len(inflight) < MaxEntries
    /\ inflight' =
          Append(inflight,
                 [op          |-> "createTimeEntry",
                  answer      |-> "pending",
                  project     |-> tag,
                  description |-> description,
                  start_time  |-> NewDate(zone, selectedDate, startTime),
                  end_time    |-> addEntryEndDateTime(zone, selectedDate,
                                                      startTime, endTime),
                  date        |-> selectedDate])
    /\ UNCHANGED <<zone, now, calc, rendered, restVars, localVars, trackVars,
                   supaVars, dailyAnalytics, authVars, mountVars>>

\* The backend answers the i-th outstanding call: with an error, or without
\* and then, for createTimeEntry, with the created row or with no row.
timeTrackingAPIAnswers(i) ==
    /\ inflight[i].answer = "pending"
    /\ \E a \in IF inflight[i].op = "createTimeEntry"
                 THEN {"row", "no row", "error"}
                 ELSE {"done", "error"} :
         inflight' = [inflight EXCEPT ![i].answer = a]
    /\ UNCHANGED <<zone, now, calc, rendered, restVars, localVars, trackVars,
                   supaVars, dailyAnalytics, authVars, mountVars>>

\* An id the backend has not given to a row the tracker knows of.
FreshId ==
    LET used == {entries[i].id : i \in 1..Len(entries)}
                \cup {inflight[i].id :
                        i \in {j \in 1..Len(inflight) :
                                 inflight[j].op = "deleteTimeEntry"}}
    IN  CHOOSE n \in 1..(Cardinality(used) + 1) : n \notin used

\* The row the backend answers a createTimeEntry call with.
CreatedRow(call, id) ==
    [id               |-> id,
     start_time       |-> call.start_time,
     end_time         |-> <<call.end_time>>,
     duration_minutes |-> <<(call.end_time - call.start_time) \div MsPerMinute>>,
     description      |-> call.description,
     projects         |-> <<[name |-> call.project]>>]

\* list.sort((a, b) => new Date(a.start_time) - new Date(b.start_time)):
\* every start_time is a valid instant and the sort is stable, so the last
\* row goes behind every row of the sorted rest that does not start after it.
RECURSIVE SortByStartTime(_)
SortByStartTime(list) ==
    IF list = << >> THEN << >>
    ELSE LET done  == SortByStartTime(SubSeq(list, 1, Len(list) - 1))
             row   == list[Len(list)]
             after == {i \in 1..Len(done) :
                         done[i].start_time > row.start_time}
             k     == IF after = {} THEN Len(done) + 1
                      ELSE CHOOSE i \in after : \A j \in after : i <= j
         IN  SubSeq(done, 1, k - 1) \o <<row>> \o SubSeq(done, k, Len(done))

\* Mutant of createTimeEntryFailed: the catch block resets the form and shows
\* the bare message of the error.
createTimeEntryFailedResetting(i) ==
    /\ inflight[i].op = "createTimeEntry"
    /\ inflight[i].answer = "error"
    /\ inflight' = RemoveAt(inflight, i)
    /\ \E message \in ErrorMessages : error' = message
    /\ startTime' = << >>
    /\ endTime' = << >>
    /\ description' = ""
    /\ tag' = ""
    /\ UNCHANGED <<zone, now, calc, rendered, restVars, entries, selectedDate,
                   trackVars, categories, loading, initializing,
                   dailyAnalytics, authVars, mountVars>>

\* createTimeEntry answered with an error, or rejected: the catch block.
createTimeEntryFailed(i) ==
    /\ inflight[i].op = "createTimeEntry"
    /\ inflight[i].answer = "error"
    /\ inflight' = RemoveAt(inflight, i)
    /\ \E message \in ErrorMessages :
         error' = "Failed to add entry: " \o message
    /\ UNCHANGED <<zone, now, calc, rendered, restVars, localVars, trackVars,
                   categories, loading, initializing, dailyAnalytics,
                   authVars, mountVars>>

\* Mutant of createTimeEntryReturned: the form is left as it is.
createTimeEntryReturnedKeepingForm(i) ==
    /\ inflight[i].op = "createTimeEntry"
    /\ inflight[i].answer \in {"row", "no row"}
    /\ inflight' = RemoveAt(inflight, i)
    /\ entries' =
          IF inflight[i].answer = "row"
            THEN SortByStartTime(Append(entries,
                                        CreatedRow(inflight[i], FreshId)))
            ELSE entries
    /\ UNCHANGED <<zone, now, calc, rendered, restVars, selectedDate,
                   formVars, trackVars, supaVars, dailyAnalytics, authVars,
                   mountVars>>

\* createTimeEntry answered without error: the row, when there is one, is
\* added and the list sorted; the form is reset.
createTimeEntryReturned(i) ==
    /\ inflight[i].op = "createTimeEntry"
    /\ inflight[i].answer \in {"row", "no row"}
    /\ inflight' = RemoveAt(inflight, i)
    /\ entries' =
          IF inflight[i].answer = "row"
            THEN SortByStartTime(Append(entries,
                                        CreatedRow(inflight[i], FreshId)))
            ELSE entries
    /\ startTime' = << >>
    /\ endTime' = << >>
    /\ description' = ""
    /\ tag' = ""
    /\ UNCHANGED <<zone, now, calc, rendered, restVars, selectedDate,
                   trackVars, supaVars, dailyAnalytics, authVars, mountVars>>

\* deleteEntry up to its await.
deleteTimeEntry(id) ==
    /\ Len(inflight) < MaxInFlight
    /\ inflight' = Append(inflight,
                 [op |-> "deleteTimeEntry", answer |-> "pending", id |-> id])
    /\ UNCHANGED <<zone, now, calc, rendered, restVars, localVars, trackVars,
                   supaVars, dailyAnalytics, authVars, mountVars>>

\* deleteTimeEntry answered with an error: the catch block.
deleteTimeEntryFailed(i) ==
    /\ inflight[i].op = "deleteTimeEntry"
    /\ inflight[i].answer = "error"
    /\ inflight' = RemoveAt(inflight, i)
    /\ \E message \in ErrorMessages :
         error' = "Failed to delete entry: " \o message
    /\ UNCHANGED <<zone, now, calc, rendered, restVars, localVars, trackVars,
                   categories, loading, initializing, dailyAnalytics,
                   authVars, mountVars>>

\* deleteTimeEntry answered without error: the row leaves the list.
deleteTimeEntryReturned(i) ==
    /\ inflight[i].op = "deleteTimeEntry"
    /\ inflight[i].answer = "done"
    /\ inflight' = RemoveAt(inflight, i)
    /\ entries' = RemoveId(entries, inflight[i].id)
    /\ UNCHANGED <<zone, now, calc, rendered, restVars, selectedDate,
                   formVars, trackVars, supaVars, dailyAnalytics, authVars,
                   mountVars>>

-----------------------------------------------------------------------------
(* Specification SpecSupa: the Supabase-backed tracker after initializeData *)
(* has finished: the entry form, addEntry and deleteEntry.                  *)

\* The tracker once initializeData has finished with the given categories
\* and entries, in a zone of the given set.
Initialized(zones, categoryLists, entryLists) ==
    /\ zone \in zones
    /\ now = InitialNow
    /\ CalcIdle
    /\ NotRendered
    /\ RestIdle
    /\ entries \in entryLists
    /\ selectedDate = ISODate(now)
    /\ startTime = << >> /\ endTime = << >> /\ description = "" /\ tag = ""
    /\ currentActivity = << >> /\ isTracking = FALSE
    /\ categories \in categoryLists
    /\ loading = FALSE
    /\ error = ""
    /\ initializing = [pc |-> "done", found |-> "some", created |-> 0]
    /\ inflight = << >>
    /\ dailyAnalytics = << >>
    /\ user = << >> /\ authLoading = TRUE
    /\ session = << >>
    /\ authEvents = [getSession |-> "pending", result |-> << >>, queue |-> << >>,
                     changes |-> 0]
    /\ storage = << >>
    /\ effects = [pc |-> "idle", runs |-> 0, queue |-> << >>, saved |-> << >>]

\* The zone is UTC-5; there is one category; loadEntries found no row. The
\* category select offers "" and the ids of the categories.
SupaInit ==
    Initialized({FixedZone(-5 * MsPerHour)},
                {<<[id |-> "Productive"]>>}, {<< >>})

SupaNext ==
    \/ \E d \in {0, EmptyDate} : setSelectedDate(d)
    \/ \E t \in FormTimes : setStartTime(t)
    \/ \E t \in {<< >>, TimeString(570)} : setEndTime(t)
    \/ \E d \in FormDescriptions : setDescription(d)
    \/ \E t \in {""} \cup {categories[i].id : i \in 1..Len(categories)} :
          setTag(t)
    \/ addEntryRejected
    \/ addEntryThrew
    \/ createTimeEntry
    \/ \E i \in 1..Len(inflight) : timeTrackingAPIAnswers(i)
    \/ \E i \in 1..Len(inflight) : createTimeEntryFailed(i)
    \/ \E i \in 1..Len(inflight) : createTimeEntryReturned(i)
    \/ \E i \in 1..Len(entries) : deleteTimeEntry(entries[i].id)
    \/ \E i \in 1..Len(inflight) : deleteTimeEntryFailed(i)
    \/ \E i \in 1..Len(inflight) : deleteTimeEntryReturned(i)

SpecSupa == SupaInit /\ [][SupaNext]_vars

-----------------------------------------------------------------------------
(* Specification SpecTrack: tracking in the Supabase-backed tracker, with   *)
(* form edits and addEntry in between. One row was loaded at start.         *)

\* The zone is UTC-5; there are categories or none; loadEntries found one
\* row, half an hour from 08:00 UTC of day 0.
TrackInit ==
    Initialized({FixedZone(-5 * MsPerHour)},
                {<< >>, <<[id |-> "Productive"]>>},
                {<<[id               |-> 1,
                    start_time       |-> 8 * MsPerHour,
                    end_time         |-> <<8 * MsPerHour + 30 * MsPerMinute>>,
                    duration_minutes |-> <<30>>,
                    description      |-> "standup",
                    projects         |-> <<[name |-> "Productive"]>>]>>})

TrackNext ==
    \/ \E t \in {<< >>, TimeString(1410)} : setStartTime(t)
    \/ \E t \in {<< >>, TimeString(1410)} : setEndTime(t)
    \/ \E d \in FormDescriptions : setDescription(d)
    \/ \E t \in {""} \cup {categories[i].id : i \in 1..Len(categories)} :
          setTag(t)
    \/ timePasses
    \/ startTracking
    \/ stopTracking
    \/ addEntryRejected
    \/ createTimeEntry
    \/ \E i \in 1..Len(inflight) : timeTrackingAPIAnswers(i)
    \/ \E i \in 1..Len(inflight) : createTimeEntryFailed(i)
    \/ \E i \in 1..Len(inflight) : createTimeEntryReturned(i)

SpecTrack == TrackInit /\ [][TrackNext]_vars

-----------------------------------------------------------------------------
(* Specification SpecInitData: initializeData of the Supabase-backed        *)
(* tracker, run by the mount effect. Each awaited backend call returns an   *)
(* answer or throws; until loading is false the page shows "Loading..."     *)
(* and offers no handler.                                                   *)

\* The names of defaultCategories.
defaultCategories ==
    <<"Sleep", "Productive", "Self-Care", "Unproductive", "Social", "Transit",
      "Class (Blocked)">>

\* Category lists getProjects may answer with: nothing, some categories, the
\* defaults.
CategoryLists ==
    {<< >>, <<[id |-> "Productive"]>>,
     [i \in 1..Len(defaultCategories) |-> [id |-> defaultCategories[i]]]}

\* initializeData up to its first await.
initializeData ==
    /\ initializing.pc = "idle"
    /\ loading' = TRUE
    /\ initializing' = [initializing EXCEPT !.pc = "getProjects"]
    /\ UNCHANGED <<zone, now, calc, rendered, restVars, localVars, trackVars,
                   categories, error, inflight, dailyAnalytics, authVars,
                   mountVars>>

\* The first getProjects is answered without error: with categories, which
\* are shown, or with none (null or an empty list).
getProjectsReturned ==
    /\ initializing.pc = "getProjects"
    /\ \E categoriesData \in CategoryLists :
         IF categoriesData = << >>
           THEN /\ initializing' = [initializing EXCEPT
                                      !.pc = "createProject", !.found = "none"]
                /\ UNCHANGED categories
           ELSE /\ initializing' = [initializing EXCEPT
                                      !.pc = "loadEntries", !.found = "some"]
                /\ categories' = categoriesData
    /\ UNCHANGED <<zone, now, calc, rendered, restVars, localVars, trackVars,
                   loading, error, inflight, dailyAnalytics, authVars,
                   mountVars>>

\* One createProject of the loop is answered; its result is not looked at.
createProjectReturned ==
    /\ initializing.pc = "createProject"
    /\ initializing' =
          [initializing EXCEPT
             !.created = @ + 1,
             !.pc = IF initializing.created + 1 = Len(defaultCategories)
                      THEN "getProjects again" ELSE "createProject"]
    /\ UNCHANGED <<zone, now, calc, rendered, restVars, localVars, trackVars,
                   categories, loading, error, inflight, dailyAnalytics,
                   authVars, mountVars>>

\* The second getProjects is answered: setCategories(newCategoriesData || []).
getProjectsAgainReturned ==
    /\ initializing.pc = "getProjects again"
    /\ categories' \in CategoryLists
    /\ initializing' = [initializing EXCEPT !.pc = "loadEntries"]
    /\ UNCHANGED <<zone, now, calc, rendered, restVars, localVars, trackVars,
                   loading, error, inflight, dailyAnalytics, authVars,
                   mountVars>>

\* Mutant of initializeDataCaught: no finally block.
initializeDataCaughtStillLoading ==
    /\ initializing.pc \in {"getProjects", "createProject", "getProjects again"}
    /\ \E message \in ErrorMessages :
         error' = "Failed to load data: " \o message
    /\ initializing' =
          [initializing EXCEPT
             !.pc = "done",
             !.found = IF initializing.pc = "getProjects" THEN "error" ELSE @]
    /\ UNCHANGED <<zone, now, calc, rendered, restVars, localVars, trackVars,
                   categories, loading, inflight, dailyAnalytics, authVars,
                   mountVars>>

\* The first getProjects is answered with an error, or an awaited call in
\* the try block throws: the catch block, then the finally block.
initializeDataCaught ==
    /\ initializing.pc \in {"getProjects", "createProject", "getProjects again"}
    /\ \E message \in ErrorMessages :
         error' = "Failed to load data: " \o message
    /\ loading' = FALSE
    /\ initializing' =
          [initializing EXCEPT
             !.pc = "done",
             !.found = IF initializing.pc = "getProjects" THEN "error" ELSE @]
    /\ UNCHANGED <<zone, now, calc, rendered, restVars, localVars, trackVars,
                   categories, inflight, dailyAnalytics, authVars, mountVars>>

\* loadEntries: getTimeEntries is answered with rows, which become the
\* entries, or fails, which loadEntries itself catches and reports; then
\* the finally block of initializeData.
loadEntriesReturned ==
    /\ initializing.pc = "loadEntries"
    /\ \/ /\ entries' \in BackendLists
          /\ UNCHANGED error
       \/ /\ \E message \in ErrorMessages :
               error' = "Failed to load entries: " \o message
          /\ UNCHANGED entries
    /\ loading' = FALSE
    /\ initializing' = [initializing EXCEPT !.pc = "done"]
    /\ UNCHANGED <<zone, now, calc, rendered, restVars, selectedDate,
                   formVars, trackVars, categories, inflight, dailyAnalytics,
                   authVars, mountVars>>

InitDataInit ==
    /\ zone = FixedZone(0)
    /\ now = InitialNow
    /\ CalcIdle
    /\ NotRendered
    /\ RestIdle
    /\ MoreIdle
    /\ entries = << >>
    /\ selectedDate = ISODate(now)
    /\ startTime = << >> /\ endTime = << >> /\ description = "" /\ tag = ""

InitDataNext ==
    \/ initializeData
    \/ getProjectsReturned
    \/ createProjectReturned
    \/ getProjectsAgainReturned
    \/ initializeDataCaught
    \/ loadEntriesReturned

\* Every backend call returns: a step that is possible is taken.
SpecInitData ==
    InitDataInit /\ [][InitDataNext]_vars /\ WF_vars(InitDataNext)

-----------------------------------------------------------------------------
(* Specification SpecRest: the REST variant (src/unnamed/part_001) fetching *)
(* the entries and the daily analytics of the selected date. The effect on  *)
(* [selectedDate] also calls fetchWeeklyAnalytics and fetchAvailableTags,   *)
(* whose requests do not name the date: they are left to SpecTrend.         *)
(*                                                                          *)
(* In this specification `inflight` is the set of outstanding GET requests, *)
(* [op, date]; they are answered in any order, each by what the backend     *)
(* holds for the date the request names. GET /analytics/daily is answered   *)
(* by the backend, which is not among the sources: by totalsByTag.          *)

\* The requests the effect on [selectedDate] sends when the date is d.
FetchesFor(d) ==
    {[op |-> "fetchEntries", date |-> d],
     [op |-> "fetchDailyAnalytics", date |-> d]}

\* The date input's onChange, the re-render and the effect that follows.
selectedDateChanged(d) ==
    /\ d # selectedDate
    /\ Cardinality(inflight \cup FetchesFor(d)) <= MaxRequests
    /\ selectedDate' = d
    /\ inflight' = inflight \cup FetchesFor(d)
    /\ UNCHANGED <<zone, now, calc, rendered, restVars, entries, formVars,
                   trackVars, supaVars, dailyAnalytics, authVars, mountVars>>

\* A request is answered: fetchEntries or fetchDailyAnalytics continues
\* behind its await and shows the answer.
fetchAnswered(request) ==
    /\ request \in inflight
    /\ inflight' = inflight \ {request}
    /\ IF request.op = "fetchEntries"
         THEN /\ entries' = entriesForDate(backendEntries, request.date)
              /\ UNCHANGED dailyAnalytics
         ELSE /\ dailyAnalytics' =
                    <<totalsByTag(backendEntries, request.date)>>
              /\ UNCHANGED entries
    /\ UNCHANGED <<zone, now, calc, rendered, restVars, selectedDate,
                   formVars, trackVars, supaVars, authVars, mountVars>>

\* The component after its first render and the effect: today is selected
\* and its two requests are outstanding. The backend holds one entry on each
\* of the latest days.
RestInit ==
    /\ zone = FixedZone(0)
    /\ now \in TrendClocks
    /\ CalcIdle
    /\ NotRendered
    /\ weeklyAnalytics = << >>
    /\ backendEntries \in
          {[k \in 1..n |-> BackendEntry(ReferenceDay + 1 - k, "Productive",
                                        60 * k)] : n \in 0..MaxRows}
    /\ entries = << >>
    /\ selectedDate = ISODate(now)
    /\ startTime = << >> /\ endTime = << >> /\ description = "" /\ tag = ""
    /\ currentActivity = << >> /\ isTracking = FALSE
    /\ categories = << >> /\ loading = FALSE /\ error = ""
    /\ initializing = [pc |-> "idle", found |-> "pending", created |-> 0]
    /\ inflight = FetchesFor(selectedDate)
    /\ dailyAnalytics = << >>
    /\ user = << >> /\ authLoading = TRUE
    /\ session = << >>
    /\ authEvents = [getSession |-> "pending", result |-> << >>, queue |-> << >>,
                     changes |-> 0]
    /\ storage = << >>
    /\ effects = [pc |-> "idle", runs |-> 0, queue |-> << >>, saved |-> << >>]

RestNext ==
    \/ \E d \in {ReferenceDay + 1 - k : k \in 0..MaxDay} :
          selectedDateChanged(d)
    \/ \E request \in inflight : fetchAnswered(request)

SpecRest == RestInit /\ [][RestNext]_vars

-----------------------------------------------------------------------------
(* Specification SpecAuth: the AuthProvider                                 *)
(* (src/src/components/AuthWrapper.jsx) and the auth client it listens to.  *)
(*                                                                          *)
(* supabase.auth is not among the sources. It holds the current session,    *)
(* << >> (none) or <<user>>. getSession resolves with the session of the    *)
(* moment; every change of the session is an auth-state-change event. The   *)
(* events are handled in the order of the changes; the result of getSession *)
(* is handled at any time after it resolved.                                *)

\* A user signs in, the user signs out, another user signs in: the session
\* changes and the subscribers are owed an event.
authStateChanged(s) ==
    /\ s # session
    /\ authEvents.changes < MaxAuthChanges
    /\ session' = s
    /\ authEvents' = [authEvents EXCEPT !.queue = Append(@, s),
                                        !.changes = @ + 1]
    /\ UNCHANGED <<zone, now, calc, rendered, restVars, localVars, trackVars,
                   supaVars, inflight, dailyAnalytics, user, authLoading,
                   mountVars>>

\* getSession resolves with the current session.
getSessionResolved ==
    /\ authEvents.getSession = "pending"
    /\ authEvents' = [authEvents EXCEPT !.getSession = "resolved",
                                        !.result = session]
    /\ UNCHANGED <<zone, now, calc, rendered, restVars, localVars, trackVars,
                   supaVars, inflight, dailyAnalytics, user, authLoading,
                   session, mountVars>>

\* The then-callback of getSession: setUser(session?.user ?? null),
\* setLoading(false).
getSessionHandled ==
    /\ authEvents.getSession = "resolved"
    /\ user' = authEvents.result
    /\ authLoading' = FALSE
    /\ authEvents' = [authEvents EXCEPT !.getSession = "handled"]
    /\ UNCHANGED <<zone, now, calc, rendered, restVars, localVars, trackVars,
                   supaVars, inflight, dailyAnalytics, session, mountVars>>

\* The callback of onAuthStateChange for the oldest event not yet handled.
authEventHandled ==
    /\ authEvents.queue # << >>
    /\ user' = Head(authEvents.queue)
    /\ authLoading' = FALSE
    /\ authEvents' = [authEvents EXCEPT !.queue = Tail(@)]
    /\ UNCHANGED <<zone, now, calc, rendered, restVars, localVars, trackVars,
                   supaVars, inflight, dailyAnalytics, session, mountVars>>

\* What ProtectedRoute renders.
ProtectedRoute ==
    IF authLoading THEN "Loading..."
    ELSE IF user = << >> THEN "LoginForm"
    ELSE "TimeTracker"

\* The provider as mounted: getSession called, the listener subscribed; the
\* client has a persisted session or none.
AuthInit ==
    /\ zone = FixedZone(0)
    /\ now = InitialNow
    /\ CalcIdle
    /\ NotRendered
    /\ RestIdle
    /\ entries = << >>
    /\ selectedDate = ISODate(now)
    /\ startTime = << >> /\ endTime = << >> /\ description = "" /\ tag = ""
    /\ currentActivity = << >> /\ isTracking = FALSE
    /\ categories = << >> /\ loading = TRUE /\ error = ""
    /\ initializing = [pc |-> "idle", found |-> "pending", created |-> 0]
    /\ inflight = << >>
    /\ dailyAnalytics = << >>
    /\ user = << >> /\ authLoading = TRUE
    /\ session \in {<< >>, <<"ann">>}
    /\ authEvents = [getSession |-> "pending", result |-> << >>, queue |-> << >>,
                     changes |-> 0]
    /\ storage = << >>
    /\ effects = [pc |-> "idle", runs |-> 0, queue |-> << >>, saved |-> << >>]

AuthNext ==
    \/ \E s \in {<< >>, <<"ann">>, <<"bob">>} : authStateChanged(s)
    \/ getSessionResolved
    \/ getSessionHandled
    \/ authEventHandled

SpecAuth == AuthInit /\ [][AuthNext]_vars

-----------------------------------------------------------------------------
(* Specification SpecMount: the local-storage variant (src/src/App.jsx)     *)
(* mounting: the effect that loads the entries from localStorage and the    *)
(* effect that saves them. React runs the effects of a commit one after the *)
(* other, each seeing the entries of the render it belongs to; a setEntries *)
(* call takes effect at the next render. In StrictMode (development) the    *)
(* mount effects are run twice before that render.                          *)

\* The number that stands for null where a number is expected.
JSONNull == -2000000001

\* JSON.stringify(list), as the list JSON.parse gives back: a NaN duration
\* is written as null.
JSONstringify(list) ==
    [i \in DOMAIN list |->
        [list[i] EXCEPT !.duration = IF @ = NaN THEN JSONNull ELSE @]]

\* One run of the two mount effects: the item is read and, when there is one,
\* setEntries(JSON.parse(savedEntries)) is called; then the entries of the
\* first render are saved.
mountEffects ==
    /\ effects.pc = "mounting"
    /\ effects.runs > 0
    /\ effects' =
          [effects EXCEPT
             !.runs = @ - 1,
             !.queue = IF storage # << >> THEN Append(@, storage[1]) ELSE @]
    /\ storage' = <<JSONstringify(entries)>>
    /\ UNCHANGED <<zone, now, calc, rendered, restVars, localVars, trackVars,
                   supaVars, inflight, dailyAnalytics, authVars>>

\* The next render and its effect: the setEntries calls made since the last
\* render take effect, the last one winning, and the entries are saved.
renderAndSave ==
    /\ \/ effects.pc = "mounting" /\ effects.runs = 0
       \/ effects.pc = "mounted" /\ storage # <<JSONstringify(entries)>>
    /\ entries' = IF effects.queue # << >>
                    THEN effects.queue[Len(effects.queue)]
                    ELSE entries
    /\ storage' = <<JSONstringify(entries')>>
    /\ effects' = [effects EXCEPT !.pc = "mounted", !.queue = << >>]
    /\ UNCHANGED <<zone, now, calc, rendered, restVars, selectedDate,
                   formVars, trackVars, supaVars, inflight, dailyAnalytics,
                   authVars>>

\* The component after its first render, before its effects: nothing is
\* stored or a list saved by an earlier session is; the mount effects are to
\* run once or twice.
MountInit ==
    /\ zone = FixedZone(0)
    /\ now = InitialNow
    /\ CalcIdle
    /\ NotRendered
    /\ RestIdle
    /\ entries = << >>
    /\ selectedDate = ISODate(now)
    /\ startTime = << >> /\ endTime = << >> /\ description = "" /\ tag = ""
    /\ currentActivity = << >> /\ isTracking = FALSE
    /\ categories = << >> /\ loading = TRUE /\ error = ""
    /\ initializing = [pc |-> "idle", found |-> "pending", created |-> 0]
    /\ inflight = << >>
    /\ dailyAnalytics = << >>
    /\ user = << >> /\ authLoading = TRUE
    /\ session = << >>
    /\ authEvents = [getSession |-> "pending", result |-> << >>, queue |-> << >>,
                     changes |-> 0]
    /\ storage \in
          {<< >>} \cup
          {<<[k \in DOMAIN f |->
                [id          |-> k,
                 date        |-> f[k].date,
                 start       |-> TimeString(570),
                 end         |-> TimeString(600),
                 duration    |-> f[k].duration,
                 description |-> "work",
                 tag         |-> "Productive"]]>> :
             f \in UNION {[1..n -> [date : Dates, duration : {30, JSONNull}]] :
                            n \in 0..MaxEntries}}
    /\ \E runs \in {1, 2} :
         effects = [pc |-> "mounting", runs |-> runs, queue |-> << >>,
                    saved |-> storage]

MountNext ==
    \/ mountEffects
    \/ renderAndSave
    \/ \E i \in 1..Len(entries) : deleteEntry(entries[i].id)

SpecMount == MountInit /\ [][MountNext]_vars

-----------------------------------------------------------------------------
(* Claims about calculateDuration, checked under SpecCalc *)

C3_EqualIsZero ==
    CalcReturned /\ calc.start = calc.end
        => calc.minutes = 0 /\ calc.endShift = 0

\* A zero-length activity at 23:30.
C3_Witness ==
    /\ CalcReturned
    /\ calc.start = TimeString(1410) /\ calc.end = TimeString(1410)
    /\ calc.minutes = 0

-----------------------------------------------------------------------------
(* Claims about the entries list, checked under SpecLocal *)

\* C5: in every reachable state every entry's duration is a non-negative
\* whole number of minutes.
C5_DurationsNonNegative ==
    \A i \in 1..Len(entries) : entries[i].duration \in Nat

\* C6: in every reachable state every entry that has a start and an end (two
\* parsable times of day) stores the duration computeDuration derives from its
\* date, start and end.
C6_DurationIsDerived ==
    \A i \in 1..Len(entries) :
        ParseTimeOfDay(entries[i].start) # NaN /\ ParseTimeOfDay(entries[i].end) # NaN
            => entries[i].duration =
                 calculateDuration(zone, entries[i].date,
                                   entries[i].start, entries[i].end)

\* C7: no operation turns an unparsable time into an entry: every entry's
\* start and end parse as times of day.
C7_NoUnparsableTimeStored ==
    \A i \in 1..Len(entries) :
        /\ ParseTimeOfDay(entries[i].start) # NaN
        /\ ParseTimeOfDay(entries[i].end) # NaN

-----------------------------------------------------------------------------
(* Claims about the aggregation functions, checked under SpecAgg *)

\* The calendar date on which a row started in local time.
AttributedDate(e) == (e.start_time + OffsetAt(zone, e.start_time)) \div MsPerDay

\* The sum of a sequence of numbers.
RECURSIVE SumSeq(_)
SumSeq(q) == IF q = << >> THEN 0 ELSE q[1] + SumSeq(Tail(q))

\* The sum of the values of a mapping.
RECURSIVE SumValues(_)
SumValues(f) ==
    IF DOMAIN f = {} THEN 0
    ELSE LET k == CHOOSE c \in DOMAIN f : TRUE
         IN  f[k] + SumValues([c \in DOMAIN f \ {k} |-> f[c]])

\* The minutes a row carries (a running row carries none).
RowMinutes(e) == IF e.duration_minutes = << >> THEN 0 ELSE e.duration_minutes[1]

\* C8: entriesForDate returns exactly the entries whose attributed date (the
\* local date on which they started) is the date, in input order; an entry
\* that runs past midnight is returned for no other date.
C8_ExactlyTheAttributedEntries ==
    rendered.pc = "done" =>
        rendered.todayEntries =
            SelectSeq(entries, LAMBDA e : AttributedDate(e) = selectedDate)

\* C9: the values of totalsByTag(entries, date) sum to the durations of
\* entriesForDate(entries, date).
C9_TotalsExhaustive ==
    rendered.pc = "done" =>
        SumValues(rendered.todayTotals) =
            SumSeq([i \in 1..Len(rendered.todayEntries) |->
                       RowMinutes(rendered.todayEntries[i])])

\* Two rows of one category and one of another on the selected date, all
\* counted.
C9_Witness ==
    /\ rendered.pc = "done"
    /\ Len(rendered.todayEntries) = 3
    /\ Cardinality(DOMAIN rendered.todayTotals) = 2
    /\ SumValues(rendered.todayTotals) = 300

\* C10: an entry of the date without a tag is not dropped: the "Unknown"
\* bucket exists and holds the durations of all such entries.
C10_UnknownBucket ==
    rendered.pc = "done" =>
        LET untagged == SelectSeq(rendered.todayEntries,
                                  LAMBDA e : e.projects = << >>)
        IN  untagged # << >> =>
              /\ "Unknown" \in DOMAIN rendered.todayTotals
              /\ rendered.todayTotals["Unknown"] =
                    SumSeq([i \in 1..Len(untagged) |-> RowMinutes(untagged[i])])

\* An untagged 60-minute row next to a tagged one; "Unknown" holds the 60.
C10_Witness ==
    /\ rendered.pc = "done"
    /\ \E i, j \in 1..Len(rendered.todayEntries) :
          /\ rendered.todayEntries[i].projects = << >>
          /\ rendered.todayEntries[j].projects # << >>
    /\ "Unknown" \in DOMAIN rendered.todayTotals
    /\ rendered.todayTotals["Unknown"] = 60

\* C11: the keys of totalsByTag(entries, date) are exactly the tags carried by
\* the entries matching the date: a tag without an entry on the date is absent
\* (not present with 0), and the mapping is empty when no entry matches.
C11_KeysAreTheTagsOfTheDate ==
    rendered.pc = "done" =>
        LET matching == {i \in 1..Len(entries) :
                            ISODate(entries[i].start_time) = selectedDate}
        IN  /\ DOMAIN rendered.todayTotals =
                  {CategoryName(entries[i]) : i \in matching}
            /\ (matching = {} => DOMAIN rendered.todayTotals = {})

\* "Sleep" is carried only by an entry of another date: the totals of the
\* selected date have "Productive" as their only key.
C11_Witness ==
    /\ rendered.pc = "done"
    /\ DOMAIN rendered.todayTotals = {"Productive"}
    /\ \E i \in 1..Len(entries) :
          /\ CategoryName(entries[i]) = "Sleep"
          /\ ISODate(entries[i].start_time) # selectedDate

-----------------------------------------------------------------------------
(* Claims about getWeeklyAverages, checked under SpecWeek *)

\* The minutes the rows of a list carry.
MinutesOf(list) == SumSeq([i \in 1..Len(list) |-> RowMinutes(list[i])])

\* The reference date of the last render: the date of the clock reading it
\* took as today.
RenderedReferenceDate == ISODate(rendered.today)

\* Its 7-day window: the reference date and the 6 days preceding it.
RenderedWindow == (RenderedReferenceDate - 6)..RenderedReferenceDate

\* The entries of the given tag dated inside that window.
WindowEntries(c) ==
    SelectSeq(entries, LAMBDA e : /\ ISODate(e.start_time) \in RenderedWindow
                                  /\ CategoryName(e) = c)

\* The tags carried by the entries dated inside that window.
WindowTags ==
    {CategoryName(entries[i]) :
        i \in {j \in 1..Len(entries) :
                  ISODate(entries[j].start_time) \in RenderedWindow}}

\* C12: weeklyAverages aggregates over exactly 7 distinct consecutive
\* calendar days, the reference date and the 6 days preceding it: every entry
\* dated inside the window contributes (once) and no entry dated outside does.
C12_SevenConsecutiveDays ==
    rendered.pc = "done" =>
        /\ rendered.last7Days = [k \in 1..7 |-> RenderedReferenceDate - 7 + k]
        /\ DOMAIN rendered.weeklyTotals = WindowTags
        /\ \A c \in DOMAIN rendered.weeklyTotals :
              rendered.weeklyTotals[c] = MinutesOf(WindowEntries(c))

\* C13: for every tag, weeklyAverages is the tag's total minutes over the
\* 7-day window divided by 7 and rounded to the nearest minute, whatever the
\* number of days on which the tag has entries; 140 minutes of "Productive"
\* on exactly one of the 7 days give 20.
C13_TotalOverSeven ==
    rendered.pc = "done" =>
        /\ DOMAIN rendered.weeklyAverages = WindowTags
        /\ \A c \in DOMAIN rendered.weeklyAverages :
              7 * rendered.weeklyAverages[c] - MinutesOf(WindowEntries(c))
                  \in (-3)..3
        /\ LET productive == WindowEntries("Productive")
           IN  /\ MinutesOf(productive) = 140
               /\ \A i, j \in 1..Len(productive) :
                     ISODate(productive[i].start_time) =
                         ISODate(productive[j].start_time)
               => /\ "Productive" \in DOMAIN rendered.weeklyAverages
                  /\ rendered.weeklyAverages["Productive"] = 20

-----------------------------------------------------------------------------
(* Claims about weeklyTrend, checked under SpecTrend *)

\* The date the backend answered for.
TrendReferenceDate == ISODate(now)

\* The minutes the backend holds for tag t on the dates first..last.
MinutesTagged(t, first, last) ==
    SumOfDurations(SelectSeq(backendEntries,
                             LAMBDA e : TagOf(e) = t /\ e.date \in first..last))

\* The tags of the backend's entries dated first..last.
TagsDated(first, last) ==
    {TagOf(backendEntries[i]) :
        i \in {j \in 1..Len(backendEntries) :
                  backendEntries[j].date \in first..last}}

\* C14: in every row whose previousWeekAvg is greater than 0,
\* changePercentage is (currentWeekAvg - previousWeekAvg) / previousWeekAvg
\* * 100 rounded to an integer, the current week being the 7 days ending at
\* the reference date and the previous week the 7 days ending 7 days
\* before it.
C14_ChangeIsRoundedRatio ==
    \A i \in 1..Len(weeklyAnalytics) :
        LET stat == weeklyAnalytics[i]
        IN  stat.previous_week_avg > 0 =>
              /\ 2 * Abs(stat.change_percentage * stat.previous_week_avg
                         - 100 * (stat.current_week_avg - stat.previous_week_avg))
                    <= stat.previous_week_avg
              /\ Abs(7 * stat.current_week_avg
                     - MinutesTagged(stat.tag, TrendReferenceDate - 6,
                                     TrendReferenceDate)) <= 3
              /\ Abs(7 * stat.previous_week_avg
                     - MinutesTagged(stat.tag, TrendReferenceDate - 13,
                                     TrendReferenceDate - 7)) <= 3

\* "Productive" went from 20 to 30 minutes a day: +50%.
C14_Witness ==
    \E i \in 1..Len(weeklyAnalytics) :
        /\ weeklyAnalytics[i].previous_week_avg = 20
        /\ weeklyAnalytics[i].current_week_avg = 30
        /\ weeklyAnalytics[i].change_percentage = 50

\* C15: in every row, trend is increasing if changePercentage > 0,
\* decreasing if it is < 0 and stable if it is exactly 0; equal non-zero
\* averages give changePercentage 0 and trend stable. The card shows the
\* matching icon and colour.
C15_TrendFollowsChange ==
    \A i \in 1..Len(weeklyAnalytics) :
        LET stat == weeklyAnalytics[i]
            card == TrendCards(weeklyAnalytics)[i]
        IN  /\ stat.change_percentage > 0 =>
                  /\ stat.trend = "increasing"
                  /\ card.icon = "chart-increasing"
                  /\ card.changeClass = "text-green-600"
            /\ stat.change_percentage < 0 =>
                  /\ stat.trend = "decreasing"
                  /\ card.icon = "chart-decreasing"
                  /\ card.changeClass = "text-red-600"
            /\ stat.change_percentage = 0 =>
                  /\ stat.trend = "stable"
                  /\ card.icon = "arrow-right"
                  /\ card.changeClass = "text-gray-600"
            /\ ( /\ stat.current_week_avg = stat.previous_week_avg
                 /\ stat.current_week_avg # 0
                 => stat.change_percentage = 0 /\ stat.trend = "stable" )

\* A tag with 20 minutes a day in both weeks next to one that decreased.
C15_Witness ==
    \E i, j \in 1..Len(weeklyAnalytics) :
        /\ weeklyAnalytics[i].current_week_avg = 20
        /\ weeklyAnalytics[i].previous_week_avg = 20
        /\ weeklyAnalytics[i].trend = "stable"
        /\ weeklyAnalytics[j].trend = "decreasing"

\* C16: weeklyTrend produces exactly one row (and the page one card) for each
\* tag that appears in the current week's or in the previous week's totals,
\* and none for any other tag.
C16_OneRowPerTagOfEitherWeek ==
    [][ weeklyAnalytics' # weeklyAnalytics =>
          LET cards == TrendCards(weeklyAnalytics')
              tags  == TagsDated(TrendReferenceDate - 13, TrendReferenceDate)
          IN  /\ {cards[i].key : i \in 1..Len(cards)} = tags
              /\ Len(cards) = Cardinality(tags) ]_vars

\* One tag has entries in the previous week only, another in the current
\* week only, and the backend holds entries of a third tag before both
\* weeks: two rows.
C16_Witness ==
    /\ Len(weeklyAnalytics) = 2
    /\ \E i, j \in 1..2 :
          /\ weeklyAnalytics[i].current_week_avg = 0
          /\ weeklyAnalytics[i].previous_week_avg > 0
          /\ weeklyAnalytics[j].previous_week_avg = 0
          /\ weeklyAnalytics[j].current_week_avg > 0
    /\ \E k \in 1..Len(backendEntries) :
          \A i \in 1..2 : TagOf(backendEntries[k]) # weeklyAnalytics[i].tag

\* C17: two calls of the aggregation functions with identical entries and
\* date arguments return identical outputs: of two successive renders over
\* the same entries and selected date, the second computes what the first
\* computed, whatever the wall clock has done in between.
C17_SameInputsSameOutputs ==
    [][ /\ rendered.pc = "done" /\ rendered'.pc = "done"
        /\ entries' = entries /\ selectedDate' = selectedDate
        => /\ rendered'.todayEntries = rendered.todayEntries
           /\ rendered'.todayTotals = rendered.todayTotals
           /\ rendered'.weeklyAverages = rendered.weeklyAverages ]_vars

\* C18: the aggregation functions never mutate their input: a render, which
\* calls getEntriesForDate, getTotalsByCategory and getWeeklyAverages, leaves
\* the entries list and every field of every entry as they were.
C18_EntriesNotMutated ==
    [][rendered' # rendered => entries' = entries]_vars

\* A render has aggregated a list that holds a running entry (no
\* duration_minutes) on the selected date; the entry still has none.
C18_Witness ==
    /\ rendered.pc = "done"
    /\ DOMAIN rendered.weeklyAverages # {}
    /\ \E i \in 1..Len(rendered.todayEntries) :
          rendered.todayEntries[i].duration_minutes = << >>
    /\ \E i \in 1..Len(entries) : entries[i].duration_minutes = << >>

-----------------------------------------------------------------------------
(* Claims about the entries list of the local-storage tracker (SpecLocal) *)

\* C19: entry ids are unique: in every reachable state no two entries of the
\* list have the same id (so that deleteEntry(id) removes exactly one entry).
C19_IdsUnique ==
    \A i, j \in 1..Len(entries) :
        i # j => entries[i].id # entries[j].id

\* C20: in every reachable state the entries list is in ascending order of
\* date and start time (among the entries that have a date and a parsable
\* start time).
C20_SortedByStart ==
    \A i, j \in 1..Len(entries) :
        /\ i < j
        /\ entries[i].date \in Dates /\ entries[j].date \in Dates
        /\ ValidHM(entries[i].start) /\ ValidHM(entries[j].start)
        => \/ entries[i].date < entries[j].date
           \/ /\ entries[i].date = entries[j].date
              /\ MinuteOfDay(entries[i].start) <= MinuteOfDay(entries[j].start)

-----------------------------------------------------------------------------
(* Claims about the handlers of the Supabase-backed tracker (SpecSupa,      *)
(* SpecTrack)                                                               *)

\* The i-th outstanding call is a createTimeEntry call and this step handles
\* its answer by adding the returned row.
RowAdded(i) ==
    /\ inflight[i].op = "createTimeEntry"
    /\ inflight' = RemoveAt(inflight, i)
    /\ Len(entries') = Len(entries) + 1

\* The row is among the entries getEntriesForDate returns for date d.
ReturnedFor(list, row, d) ==
    \E k \in 1..Len(getEntriesForDate(list, d)) :
        getEntriesForDate(list, d)[k] = row

\* C21: an entry is attributed to the calendar date on which it started in
\* local time: in every zone and for every start time, the entry added by an
\* addEntry called while date D was selected is returned by
\* getEntriesForDate(D) and by getEntriesForDate of no other date.
C21_AttributedToSelectedDate ==
    [][\A i \in 1..Len(inflight) :
          RowAdded(i) =>
             \A d \in (-1)..(MaxDay + 1) :
                 ReturnedFor(entries', CreatedRow(inflight[i], FreshId), d)
                 <=> d = inflight[i].date]_vars

\* This step is a stopTracking that ends a tracking session.
SessionStopped == currentActivity # << >> /\ currentActivity' = << >>

\* C22: in every reachable state of the tracker, under any sequence of
\* startTracking, stopTracking, addEntry and form edits, isTracking is true
\* exactly when currentActivity is non-null; and a step taken while there is
\* no current activity that starts none (a stopTracking among them) leaves
\* isTracking false and the end field as it was, or as typed (23:30) or
\* reset: it writes no clock time into it.
C22_TrackingIffActivity ==
    [][/\ isTracking <=> currentActivity # << >>
       /\ isTracking' <=> currentActivity' # << >>
       /\ currentActivity = << >> /\ currentActivity' = << >>
            => /\ isTracking' = FALSE
               /\ endTime' \in {<< >>, TimeString(1410), endTime}]_vars

\* An activity is tracked, the form was edited since it began, and the clock
\* has moved on.
C22_Witness ==
    /\ isTracking
    /\ currentActivity # << >>
    /\ startTime # currentActivity[1].start
    /\ now > InitialNow

\* C23: when stopTracking ends a tracking session, the form afterwards holds
\* the start time, the description and the tag captured by the startTracking
\* that began the session and the stop time as end, whatever addEntry and
\* form edits came in between; stopTracking never changes the entries list.
C23_StopRestoresCapturedActivity ==
    [][SessionStopped =>
          /\ startTime' = currentActivity[1].start
          /\ endTime' = toTimeString(zone, now)
          /\ description' = currentActivity[1].description
          /\ tag' = currentActivity[1].category
          /\ entries' = entries]_vars

\* The form as addEntry resets it.
FormIsReset(start, end, desc, category) ==
    start = << >> /\ end = << >> /\ desc = "" /\ category = ""

\* This step is addEntry calling createTimeEntry.
CallSent ==
    /\ Len(inflight') = Len(inflight) + 1
    /\ inflight'[Len(inflight')].op = "createTimeEntry"

\* This step handles the answer to the i-th outstanding call, a
\* createTimeEntry call.
AddEntryFinished(i) ==
    inflight[i].op = "createTimeEntry" /\ inflight' = RemoveAt(inflight, i)

\* Every element of list a is an element of list b.
AllKept(a, b) == \A k \in 1..Len(a) : \E j \in 1..Len(b) : b[j] = a[k]

\* C24 as stated: addEntry changes the entries list if and only if the four
\* fields are non-empty: whenever an addEntry that passed the check of the
\* fields finishes, exactly one entry has been added, the others are as they
\* were and the form is reset.
C24_AddsWheneverFieldsAreFilled ==
    [][\A i \in 1..Len(inflight) :
          AddEntryFinished(i) =>
             /\ Len(entries') = Len(entries) + 1
             /\ AllKept(entries, entries')
             /\ FormIsReset(startTime', endTime', description', tag')]_vars

\* C24, amended: addEntry calls the backend only when the four fields are
\* non-empty, and the call itself changes neither entries nor form; the
\* entries list grows only when a createTimeEntry call is answered with a
\* row, and then by exactly that one entry, which starts on the date that was
\* selected at the call (local time), no other entry being altered; whenever
\* the call is answered without error the four form fields are reset.
C24_AddsWhenBackendReturnsTheRow ==
    [][/\ CallSent =>
            /\ ~FormIsReset(startTime, endTime, description, tag)
            /\ startTime # << >> /\ endTime # << >>
            /\ description # "" /\ tag # ""
            /\ entries' = entries
            /\ <<startTime', endTime', description', tag'>>
                 = <<startTime, endTime, description, tag>>
       /\ Len(entries') > Len(entries) =>
            \E i \in 1..Len(inflight) :
                AddEntryFinished(i) /\ inflight[i].answer = "row"
       /\ \A i \in 1..Len(inflight) :
            AddEntryFinished(i) /\ inflight[i].answer # "error" =>
               /\ FormIsReset(startTime', endTime', description', tag')
               /\ AllKept(entries, entries')
               /\ inflight[i].answer = "row" =>
                     /\ Len(entries') = Len(entries) + 1
                     /\ \E k \in 1..Len(entries') :
                          /\ entries'[k] \notin {entries[j] : j \in 1..Len(entries)}
                          /\ AttributedDate(entries'[k]) = inflight[i].date
                          /\ entries'[k].start_time = inflight[i].start_time
               /\ inflight[i].answer = "no row" => entries' = entries]_vars

\* An entry was added behind one that starts later on the same form date,
\* and the form has been filled in again since.
C24_Witness ==
    /\ Len(entries) = 2
    /\ entries[1].id > entries[2].id
    /\ startTime # << >>
    /\ inflight = << >>

\* C25: in the Supabase-backed variant the entries list changes only in the
\* step that handles an answer without error to a createTimeEntry or
\* deleteTimeEntry call; the step that handles an error answer leaves the
\* entries list and the four form fields as they were and sets the error
\* message to a non-empty string.
C25_EntriesChangeOnlyOnSuccess ==
    [][/\ entries' # entries =>
            \E i \in 1..Len(inflight) :
                /\ inflight' = RemoveAt(inflight, i)
                /\ inflight[i].answer \in {"row", "done"}
       /\ \A i \in 1..Len(inflight) :
            inflight' = RemoveAt(inflight, i) /\ inflight[i].answer = "error"
            => /\ entries' = entries
               /\ <<startTime', endTime', description', tag'>>
                    = <<startTime, endTime, description, tag>>
               /\ error' # ""]_vars

\* A failed call has been reported while an entry is in the list and the
\* form is filled in.
C25_Witness ==
    /\ error # ""
    /\ error # "Failed to add entry: Invalid time value"
    /\ entries # << >>
    /\ ~FormIsReset(startTime, endTime, description, tag)
    /\ startTime # << >> /\ description # ""

-----------------------------------------------------------------------------
(* Claims about initializeData (SpecInitData) *)

-----------------------------------------------------------------------------
(* Claims about the REST variant's fetches (SpecRest) *)

\* C26: in the REST variant, once all outstanding requests have been
\* answered, the entries and the daily analytics shown are those of the
\* currently selected date, for every interleaving of date changes and every
\* order in which the answers arrive.
C26_ShownDataIsOfSelectedDate ==
    inflight = {} =>
       /\ entries = entriesForDate(backendEntries, selectedDate)
       /\ dailyAnalytics = <<totalsByTag(backendEntries, selectedDate)>>

-----------------------------------------------------------------------------
(* Claims about the AuthProvider (SpecAuth) *)

\* C27: after the initial getSession result and every auth-state-change
\* event have been handled, in whatever order they are delivered, the
\* provider's user equals the user of the most recent session (null when
\* signed out) and loading is false; the protected TimeTracker is rendered
\* only in states where loading is false and user is non-null.
C27_UserIsOfMostRecentSession ==
    /\ authEvents.getSession = "handled" /\ authEvents.queue = << >>
         => user = session /\ authLoading = FALSE
    /\ ProtectedRoute = "TimeTracker" => authLoading = FALSE /\ user # << >>

-----------------------------------------------------------------------------
(* Claims about mounting the local-storage variant (SpecMount) *)

\* C28: in the local-storage variant mounting never loses saved data: once
\* the mount effects have finished and their render is done, the entries in
\* state equal the list that was stored under 'timeTrackerEntries' before
\* mount (the empty list when nothing was stored) and the stored value is
\* that same list, also when the mount effects were run more than once;
\* afterwards every write to the storage saves the entries as they are.
C28_MountKeepsSavedData ==
    [][/\ effects.pc = "mounting" /\ effects'.pc = "mounted" =>
            /\ <<entries'>> = IF effects.saved = << >> THEN <<<< >>>>
                              ELSE effects.saved
            /\ storage' = <<entries'>>
       /\ effects.pc = "mounted" /\ storage' # storage =>
            storage' = <<JSONstringify(entries')>>]_vars

=============================================================================
